---- MODULE Spec2Model ----
(***************************************************************************)
(* rustventure: scene files, the action-line parser, action lookup and the *)
(* scene loop.  Text is modelled as sequences of one-character strings, so *)
(* that trimming, line splitting, the action-line grammar, regex escaping  *)
(* and regex matching are computed character by character.                 *)
(***************************************************************************)
EXTENDS Naturals, Sequences, FiniteSets, TLC

VARIABLES
    fs,         \* the scene files on disk: path -> content
    scenepath,  \* Config::scenepath
    scene,      \* the current Scene
    output,     \* what was written to the output, one entry per write
    line,       \* the String that read_line fills
    pc,         \* where the program is
    nread,      \* how many input lines were read
    text,       \* the line of a scene file given to the action parser
    res,        \* the last result of Action::from or Scene::load
    found,      \* the last result of Scene::get_action: an index, 0 for None
    matched,    \* the last result of Regex::is_match
    adventures, \* the Vec<Adventure> that adventure::search returned
    sel,        \* the selection `i` of run: a number, 0 for None
    eofs,       \* how many calls of read_line returned 0
    entry       \* what read_line appended to the selection buffer last

\* the state of the adventure selection of run
adv == <<adventures, sel, eofs, entry>>

vars ==
    <<fs, scenepath, scene, output, line, pc, nread, text, res, found, matched,
      adv>>

(***************************************************************************)
(* Bounds of the model.                                                    *)
(***************************************************************************)
\* longest sequence of tokens after the "!kind:" prefix of a generated line
MaxTokens == 3
\* most chunks a generated scene file is made of
MaxChunks == 3
\* most input lines run reads before the input stream ends
MaxInput == 3
\* most calls of read_line at the end of the input that the model follows
MaxEofReads == 2

(***************************************************************************)
(* Characters and strings.                                                 *)
(***************************************************************************)
\* \w of the regex crate, restricted to the characters the model uses
WordChars ==
    {"k", "w", "s", "c", "e", "n", "m", "o", "M", "_",
     "0", "1", "2", "3", "4", "5", "6", "7", "8", "9"}

\* \s of the regex crate and char::is_whitespace, restricted likewise
SpaceChars == {" ", "\t", "\n"}

\* regex_syntax::is_meta_character: what regex::escape puts a backslash before
MetaChars ==
    {"\\", ".", "+", "*", "?", "(", ")", "|", "[", "]", "{", "}", "^", "$",
     "#", "&", "-", "~"}

IsWord(c) == c \in WordChars

IsSpace(c) == c \in SpaceChars

\* the concatenation of a sequence of strings
RECURSIVE Flatten(_)
Flatten(ss) == IF ss = <<>> THEN <<>> ELSE Head(ss) \o Flatten(Tail(ss))

\* s[a..b], empty when a > b
Slice(s, a, b) == IF a > b THEN <<>> ELSE SubSeq(s, a, b)

\* str::trim: leading and trailing whitespace removed
RECURSIVE TrimStart(_)
TrimStart(s) ==
    IF s # <<>> /\ IsSpace(Head(s)) THEN TrimStart(Tail(s)) ELSE s

RECURSIVE TrimEnd(_)
TrimEnd(s) ==
    IF s # <<>> /\ IsSpace(s[Len(s)])
    THEN TrimEnd(SubSeq(s, 1, Len(s) - 1))
    ELSE s

Trim(s) == TrimEnd(TrimStart(s))

\* number of characters of the maximal \w run of s starting at index i
RECURSIVE WordRun(_, _)
WordRun(s, i) ==
    IF i <= Len(s) /\ IsWord(s[i]) THEN 1 + WordRun(s, i + 1) ELSE 0

HasNewline(s) == \E i \in 1..Len(s) : s[i] = "\n"

(***************************************************************************)
(* The regex crate, for the syntax the model's characters can spell:       *)
(* literals, `.`, `^`, `$`, a postfix `*`, and backslash escapes.          *)
(***************************************************************************)
\* regex::escape with `.` left out of the characters it escapes
EscapeNoDot(s) ==
    LET RECURSIVE E(_)
        E(t) == IF t = <<>> THEN <<>>
                ELSE IF Head(t) \in MetaChars \ {"."}
                     THEN <<"\\", Head(t)>> \o E(Tail(t))
                     ELSE <<Head(t)>> \o E(Tail(t))
    IN  E(s)

\* regex::escape
RECURSIVE Escape(_)
Escape(s) ==
    IF s = <<>> THEN <<>>
    ELSE IF Head(s) \in MetaChars
         THEN <<"\\", Head(s)>> \o Escape(Tail(s))
         ELSE <<Head(s)>> \o Escape(Tail(s))

Atom(kind, ch) == [kind |-> kind, ch |-> ch, star |-> FALSE]

BadRegex == [ok |-> FALSE, atoms |-> <<>>]

\* Regex::new: the pattern text parsed from index i on, atoms so far in acc
RECURSIVE CompileFrom(_, _, _)
CompileFrom(re, i, acc) ==
    IF i > Len(re) THEN [ok |-> TRUE, atoms |-> acc]
    ELSE LET c == re[i] IN
         CASE c = "\\" ->
                IF i = Len(re) THEN BadRegex
                ELSE LET d == re[i + 1] IN
                     CASE d \in MetaChars ->
                            CompileFrom(re, i + 2, Append(acc, Atom("lit", d)))
                       [] d = "w" ->
                            CompileFrom(re, i + 2, Append(acc, Atom("word", d)))
                       [] d = "s" ->
                            CompileFrom(re, i + 2, Append(acc, Atom("space", d)))
                       [] d = "n" ->
                            CompileFrom(re, i + 2, Append(acc, Atom("lit", "\n")))
                       [] OTHER -> BadRegex
           [] c = "*" ->
                IF acc = <<>> THEN BadRegex
                ELSE CompileFrom(re, i + 1,
                        [acc EXCEPT ![Len(acc)].star = TRUE])
           [] c = "." -> CompileFrom(re, i + 1, Append(acc, Atom("any", c)))
           [] c = "^" -> CompileFrom(re, i + 1, Append(acc, Atom("bol", c)))
           [] c = "$" -> CompileFrom(re, i + 1, Append(acc, Atom("eol", c)))
           [] OTHER -> CompileFrom(re, i + 1, Append(acc, Atom("lit", c)))

Compile(re) == CompileFrom(re, 1, <<>>)

\* whether a one-character atom accepts character c
Accepts(a, c) ==
    CASE a.kind = "lit" -> c = a.ch
      [] a.kind = "any" -> c # "\n"
      [] a.kind = "word" -> IsWord(c)
      [] a.kind = "space" -> IsSpace(c)
      [] OTHER -> FALSE

\* whether a zero-width atom holds at offset p of s
Holds(a, s, p) ==
    CASE a.kind = "bol" -> p = 0
      [] a.kind = "eol" -> p = Len(s)
      [] OTHER -> FALSE

ZeroWidth(a) == a.kind \in {"bol", "eol"}

\* whether atoms i.. match s from offset p (p characters already consumed)
RECURSIVE MatchAt(_, _, _, _)
MatchAt(atoms, i, s, p) ==
    IF i > Len(atoms) THEN TRUE
    ELSE LET a == atoms[i] IN
         IF ZeroWidth(a)
         THEN (a.star \/ Holds(a, s, p)) /\ MatchAt(atoms, i + 1, s, p)
         ELSE IF a.star
              THEN \/ MatchAt(atoms, i + 1, s, p)
                   \/ /\ p < Len(s)
                      /\ Accepts(a, s[p + 1])
                      /\ MatchAt(atoms, i, s, p + 1)
              ELSE /\ p < Len(s)
                   /\ Accepts(a, s[p + 1])
                   /\ MatchAt(atoms, i + 1, s, p + 1)

\* a match that must start at the first character of the input
IsMatchFromStart(re, s) == MatchAt(Compile(re).atoms, 1, s, 0)

\* Regex::is_match: an unanchored search
IsMatch(re, s) == \E p \in 0..Len(s) : MatchAt(Compile(re).atoms, 1, s, p)

(***************************************************************************)
(* Action::from (scene.rs).                                                *)
(***************************************************************************)
Output(s) == [tag |-> "Output", arg |-> s]

Change(s) == [tag |-> "Change", arg |-> s]

NoCaptures == [kind |-> <<>>, expression |-> <<>>, action |-> <<>>, argument |-> <<>>]

NoAction == [expression |-> <<>>, effect |-> Output(<<>>)]

ParseErr(e) == [ok |-> FALSE, err |-> e, c |-> NoCaptures, action |-> NoAction]

\* `\s->\s` of ACTION_RE at index j of l
SepAt(l, j) ==
    /\ j + 3 <= Len(l)
    /\ IsSpace(l[j])
    /\ l[j + 1] = "-"
    /\ l[j + 2] = ">"
    /\ IsSpace(l[j + 3])

\* `(\w+)\s(.*)$` of ACTION_RE from index i of l to its end
VerbAt(l, i) ==
    LET v == WordRun(l, i) IN
    /\ v >= 1
    /\ i + v <= Len(l)
    /\ IsSpace(l[i + v])
    /\ ~HasNewline(Slice(l, i + v + 1, Len(l)))

\* `^!(\w+):` of ACTION_RE
HeadOk(l) ==
    LET k == WordRun(l, 2) IN
    /\ Len(l) >= 1
    /\ l[1] = "!"
    /\ k >= 1
    /\ 2 + k <= Len(l)
    /\ l[2 + k] = ":"

\* the indices at which `\s->\s(\w+)\s(.*)$` matches after a pattern `(.*)`
SepCandidates(l) ==
    LET p0 == 3 + WordRun(l, 2) IN
    {j \in p0..Len(l) :
        /\ SepAt(l, j)
        /\ VerbAt(l, j + 4)
        /\ ~HasNewline(Slice(l, p0, j - 1))}

SetMax(S) == CHOOSE x \in S : \A y \in S : y <= x

SetMin(S) == CHOOSE x \in S : \A y \in S : x <= y

\* the captures of ACTION_RE on l with the separator at index j
Captures(l, j) ==
    LET k == WordRun(l, 2)
        v == WordRun(l, j + 4)
    IN  [kind |-> Slice(l, 2, 1 + k),
         expression |-> Slice(l, 3 + k, j - 1),
         action |-> Slice(l, j + 4, j + 3 + v),
         argument |-> Slice(l, j + 5 + v, Len(l))]

\* the text of the compiled matcher (Regex::as_str)
ExprText(c) ==
    IF c.kind = <<"k", "w">>
    THEN <<"^">> \o Escape(c.expression) \o <<"$">>
    ELSE c.expression

\* the effect with the argument trimmed before it is stored
EffectOfTrimmed(c) ==
    IF c.action = <<"s", "c", "e", "n", "e">>
    THEN Change(Trim(c.argument))
    ELSE Output(Trim(c.argument))

\* the effect of the parsed action (scene.rs:105-109)
EffectOf(c) ==
    IF c.action = <<"s", "c", "e", "n", "e">>
    THEN Change(c.argument)
    ELSE Output(c.argument)

\* ACTION_RE.captures with a lazy `(.*?)`: the first separator wins
CapturesLazy(l) == Captures(l, SetMin(SepCandidates(l)))

\* ACTION_RE.captures: the greedy `(.*)` takes the last separator after which
\* the rest of the expression still matches
ActionReCaptures(l) == Captures(l, SetMax(SepCandidates(l)))

\* Action::from with the error of Regex::new dropped
ActionFromUnchecked(l) ==
    IF ~HeadOk(l) \/ SepCandidates(l) = {}
    THEN ParseErr("invalid action line")
    ELSE LET c == ActionReCaptures(l)
         IN  [ok |-> TRUE, err |-> "",
              c |-> c,
              action |-> [expression |-> ExprText(c), effect |-> EffectOf(c)]]

\* Action::from
ActionFrom(l) ==
    IF ~HeadOk(l) \/ SepCandidates(l) = {}
    THEN ParseErr("invalid action line")
    ELSE LET c == ActionReCaptures(l)
             expr == ExprText(c)
         IN  IF ~Compile(expr).ok
             THEN ParseErr("regex")
             ELSE [ok |-> TRUE, err |-> "",
                   c |-> c,
                   action |-> [expression |-> expr, effect |-> EffectOf(c)]]

(***************************************************************************)
(* Scene::load and Scene::get_action (scene.rs).                           *)
(***************************************************************************)
\* BufRead::read_line from index i <= Len(content): the index of the last
\* character read, the line terminator or the last character of the file
RECURSIVE LineEnd(_, _)
LineEnd(content, i) ==
    IF i >= Len(content) \/ content[i] = "\n"
    THEN i
    ELSE LineEnd(content, i + 1)

\* the first loop of load with the trimmed line pushed to the description
RECURSIVE ReadDescriptionTrimmed(_, _, _)
ReadDescriptionTrimmed(content, i, desc) ==
    IF i > Len(content)
    THEN [desc |-> desc, actions |-> <<>>, next |-> i]
    ELSE LET e == LineEnd(content, i)
             l == SubSeq(content, i, e)
             a == ActionFrom(Trim(l))
         IN  IF a.ok
             THEN [desc |-> desc, actions |-> <<a.action>>, next |-> e + 1]
             ELSE ReadDescriptionTrimmed(content, e + 1, desc \o Trim(l))

\* the first loop of load: the description, up to the first line that
\* parses as an action
RECURSIVE ReadDescription(_, _, _)
ReadDescription(content, i, desc) ==
    IF i > Len(content)
    THEN [desc |-> desc, actions |-> <<>>, next |-> i]
    ELSE LET e == LineEnd(content, i)
             l == SubSeq(content, i, e)
             a == ActionFrom(Trim(l))
         IN  IF a.ok
             THEN [desc |-> desc, actions |-> <<a.action>>, next |-> e + 1]
             ELSE ReadDescription(content, e + 1, desc \o l)

\* the second loop of load with unparsable lines skipped like blank ones
RECURSIVE ReadActionsLenient(_, _, _)
ReadActionsLenient(content, i, actions) ==
    IF i > Len(content)
    THEN [ok |-> TRUE, err |-> "", actions |-> actions]
    ELSE LET e == LineEnd(content, i)
             l == Trim(SubSeq(content, i, e))
             a == ActionFrom(l)
         IN  IF l = <<>> \/ ~a.ok
             THEN ReadActionsLenient(content, e + 1, actions)
             ELSE ReadActionsLenient(content, e + 1, Append(actions, a.action))

\* the second loop of load: the remaining actions
RECURSIVE ReadActions(_, _, _)
ReadActions(content, i, actions) ==
    IF i > Len(content)
    THEN [ok |-> TRUE, err |-> "", actions |-> actions]
    ELSE LET e == LineEnd(content, i)
             l == Trim(SubSeq(content, i, e))
             a == ActionFrom(l)
         IN  IF l = <<>>
             THEN ReadActions(content, e + 1, actions)
             ELSE IF a.ok
                  THEN ReadActions(content, e + 1, Append(actions, a.action))
                  ELSE [ok |-> FALSE, err |-> a.err, actions |-> <<>>]

NoScene == [path |-> <<>>, description |-> <<>>, actions |-> <<>>]

LoadErr(e) == [ok |-> FALSE, err |-> e, scene |-> NoScene]

\* Scene::load that refuses a file without any action
LoadNeedsAction(files, path) ==
    IF path \notin DOMAIN files
    THEN LoadErr("io")
    ELSE LET d == ReadDescription(files[path], 1, <<>>)
             r == ReadActions(files[path], d.next, d.actions)
         IN  IF r.ok /\ r.actions # <<>>
             THEN [ok |-> TRUE, err |-> "",
                   scene |-> [path |-> path,
                              description |-> d.desc,
                              actions |-> r.actions]]
             ELSE LoadErr(IF r.ok THEN "invalid action line" ELSE r.err)

\* Scene::load
Load(files, path) ==
    IF path \notin DOMAIN files
    THEN LoadErr("io")
    ELSE LET d == ReadDescription(files[path], 1, <<>>)
             r == ReadActions(files[path], d.next, d.actions)
         IN  IF r.ok
             THEN [ok |-> TRUE, err |-> "",
                   scene |-> [path |-> path,
                              description |-> d.desc,
                              actions |-> r.actions]]
             ELSE LoadErr(r.err)

\* get_action returning the last action that matches
RECURSIVE LastMatchFrom(_, _, _)
LastMatchFrom(sc, input, i) ==
    IF i < 1 THEN 0
    ELSE IF IsMatch(sc.actions[i].expression, input)
         THEN i
         ELSE LastMatchFrom(sc, input, i - 1)

GetActionLast(sc, input) == LastMatchFrom(sc, input, Len(sc.actions))

\* the loop of get_action from action i on
RECURSIVE FirstMatchFrom(_, _, _)
FirstMatchFrom(sc, input, i) ==
    IF i > Len(sc.actions) THEN 0
    ELSE IF IsMatch(sc.actions[i].expression, input)
         THEN i
         ELSE FirstMatchFrom(sc, input, i + 1)

\* Scene::get_action: the index of the action returned, 0 for None
GetAction(sc, input) == FirstMatchFrom(sc, input, 1)

(***************************************************************************)
(* Scene::load_next (scene.rs) and the paths it builds.                    *)
(***************************************************************************)
\* the index of the last path separator of p, 0 when it has none
LastSlash(p) ==
    IF \E i \in 1..Len(p) : p[i] = "/"
    THEN SetMax({i \in 1..Len(p) : p[i] = "/"})
    ELSE 0

\* Path::file_name of a path whose last component is a normal one
FileName(p) == Slice(p, LastSlash(p) + 1, Len(p))

\* Path::parent of such a path; PathBuf::pop truncates to it
Parent(p) ==
    IF LastSlash(p) = 1 THEN <<"/">> ELSE Slice(p, 1, LastSlash(p) - 1)

\* PathBuf::push: an absolute name replaces the path, any other is appended
Push(p, name) ==
    IF name # <<>> /\ Head(name) = "/" THEN name
    ELSE IF p = <<>> THEN name
    ELSE IF p[Len(p)] = "/" THEN p \o name
    ELSE p \o <<"/">> \o name

\* PathBuf::set_file_name on the path of a loaded scene, which always has a
\* file name: pop, then push
SetFileName(p, name) == Push(Parent(p), name)

SceneExt == <<".", "s", "c", "e", "n", "e">>

\* Scene::load_next
LoadNext(files, sc, name) == Load(files, SetFileName(sc.path, name \o SceneExt))

\* what `write!(output, "{}", scene)` writes (main.rs prints the description)
Display(sc) == sc.description

(***************************************************************************)
(* The action parser applied to generated lines, and the parsed action's   *)
(* matcher applied to user input.                                          *)
(***************************************************************************)
LinePrefixes ==
    {<<"!", "k", "w", ":">>, <<"!", "m", ":">>, <<"!", "m", ":", "^", "m">>, <<"!", ":">>}

LineTokens ==
    {<<"m">>, <<".">>, <<"*">>, <<"$">>,
     <<" ", "-", ">", " ">>,
     <<" ", "-", ">", " ", "o", " ">>,
     <<" ", "-", ">", " ", "s", "c", "e", "n", "e", " ">>,
     <<"\t", "-", ">", "\t", "o", "\t">>}

SeqsUpTo(S, n) == UNION {[1..k -> S] : k \in 0..n}

ParseLines ==
    {pre \o Flatten(ts) : pre \in LinePrefixes, ts \in SeqsUpTo(LineTokens, MaxTokens)}

\* lines a user may type, as read_line returns them
UserLines ==
    {<<"m", "\n">>, <<" ", "m", "\n">>, <<"m", "m", "\n">>, <<".", "\n">>,
     <<"M", "\n">>, <<"\n">>, <<"m", "*", "\n">>, <<".", "m", "\n">>}

InitParse ==
    /\ text \in ParseLines
    /\ pc = "parse"
    /\ res = ParseErr("")
    /\ line = <<>>
    /\ matched = FALSE
    /\ fs = <<>>
    /\ scenepath = <<>>
    /\ scene = NoScene
    /\ output = <<>>
    /\ nread = 0
    /\ found = 0
    /\ adventures = <<>>
    /\ sel = 0
    /\ eofs = 0
    /\ entry = <<>>

\* Action::from(line.trim()), as Scene::load calls it
ParseLine ==
    /\ pc = "parse"
    /\ res' = ActionFrom(Trim(text))
    /\ pc' = "parsed"
    /\ UNCHANGED <<fs, scenepath, scene, output, line, nread, text, found, matched, adv>>

\* a.expression.is_match(line.trim()), as get_action is called by the loop
TryMatch(l) ==
    /\ pc = "parsed"
    /\ res.ok
    /\ line' = l
    /\ matched' = IsMatch(res.action.expression, Trim(l))
    /\ pc' = "matched"
    /\ UNCHANGED <<fs, scenepath, scene, output, nread, text, res, found, adv>>

NextParse ==
    \/ ParseLine
    \/ \E l \in UserLines : TryMatch(l)

SpecParse == InitParse /\ [][NextParse]_vars

(***************************************************************************)
(* Scene::load applied to generated scene files, and get_action applied to *)
(* user input on the loaded scene.                                         *)
(***************************************************************************)
FileChunks ==
    {<<"m", "\n">>,
     <<"\n">>,
     <<"!", "k", "w", ":", "m", " ", "-", ">", " ", "o", " ", "w", "\n">>,
     <<"!", "m", ":", "m", "*", " ", "-", ">", " ", "s", "c", "e", "n", "e", " ", "c", "\n">>,
     <<"!", "m", ":", "*", "m", " ", "-", ">", " ", "o", " ", "m", "\n">>,
     <<"!", "k", "w", ":", "m", "\n">>,
     <<" ", " ", "!", "m", ":", ".", " ", "-", ">", " ", "o", " ", "k">>}

GenFiles == {Flatten(cs) : cs \in SeqsUpTo(FileChunks, MaxChunks)}

KittenPath == <<"d", "/", "k", ".", "s", "c", "e", "n", "e">>

InitLoad ==
    /\ \E content \in GenFiles : fs = (KittenPath :> content)
    /\ scenepath = KittenPath
    /\ pc = "load"
    /\ res = LoadErr("")
    /\ scene = NoScene
    /\ line = <<>>
    /\ found = 0
    /\ matched = FALSE
    /\ output = <<>>
    /\ nread = 0
    /\ text = <<>>
    /\ adventures = <<>>
    /\ sel = 0
    /\ eofs = 0
    /\ entry = <<>>

\* Scene::load(path) returns a Scene
LoadOk ==
    /\ pc = "load"
    /\ \E r \in {Load(fs, scenepath)} :
       /\ r.ok
       /\ res' = r
       /\ scene' = r.scene
    /\ pc' = "loaded"
    /\ UNCHANGED <<fs, scenepath, output, line, nread, text, found, matched, adv>>

\* Scene::load(path) returns an error
LoadFail ==
    /\ pc = "load"
    /\ \E r \in {Load(fs, scenepath)} :
       /\ ~r.ok
       /\ res' = r
    /\ pc' = "failed"
    /\ UNCHANGED <<fs, scenepath, scene, output, line, nread, text, found, matched, adv>>

\* scene.get_action(line.trim())
Lookup(l) ==
    /\ pc = "loaded"
    /\ line' = l
    /\ found' = GetAction(scene, Trim(l))
    /\ pc' = "looked"
    /\ UNCHANGED <<fs, scenepath, scene, output, nread, text, res, matched, adv>>

NextLoad ==
    \/ LoadOk
    \/ LoadFail
    \/ \E l \in UserLines : Lookup(l)

SpecLoad == InitLoad /\ [][NextLoad]_vars

(***************************************************************************)
(* run (lib.rs) and main (main.rs): the scene loop over a directory of     *)
(* scene files.                                                            *)
(***************************************************************************)
CuddlePath == <<"d", "/", "c", ".", "s", "c", "e", "n", "e">>

BrokenPath == <<"d", "/", "e", ".", "s", "c", "e", "n", "e">>

MissingPath == <<"d", "/", "n", ".", "s", "c", "e", "n", "e">>

SubdirPath == <<"d", "/", "s", "/", "k", ".", "s", "c", "e", "n", "e">>

\* kitten: an output action and transitions to every other scene
KittenFile ==
    Flatten(<<<<"m", "\n">>,
         <<"\n">>,
         <<"!", "k", "w", ":", "m", " ", "-", ">", " ", "o", " ", "w", "\n">>,
         <<"!", "k", "w", ":", "c", " ", "-", ">", " ", "s", "c", "e", "n", "e", " ", "c", "\n">>,
         <<"!", "k", "w", ":", "e", " ", "-", ">", " ", "s", "c", "e", "n", "e", " ", "e", "\n">>,
         <<"!", "k", "w", ":", "n", " ", "-", ">", " ", "s", "c", "e", "n", "e", " ", "n", "\n">>,
         <<"!", "k", "w", ":", "s", " ", "-", ">", " ", "s", "c", "e", "n", "e", " ", "s", "/", "k", "\n">>>>)

\* cuddle_cat: a keyword action, then a pattern that matches any character
CuddleFile ==
    Flatten(<<<<"w", "\n">>,
         <<"m", "\n">>,
         <<"!", "k", "w", ":", "o", " ", "-", ">", " ", "o", " ", "m", "\n">>,
         <<"!", "m", ":", ".", " ", "-", ">", " ", "s", "c", "e", "n", "e", " ", "k", "\n">>>>)

\* a file with a line that is no action after its first action
BrokenFile ==
    Flatten(<<<<"e", "\n">>,
         <<"!", "k", "w", ":", "m", " ", "-", ">", " ", "o", " ", "w", "\n">>,
         <<"!", "k", "w", ":", "m", "\n">>>>)

\* a scene file in a subdirectory of the others
SubdirFile ==
    Flatten(<<<<"s", "\n">>,
         <<"!", "k", "w", ":", "k", " ", "-", ">", " ", "s", "c", "e", "n", "e", " ", "k", "\n">>>>)

World ==
    (KittenPath :> KittenFile) @@ (CuddlePath :> CuddleFile)
    @@ (BrokenPath :> BrokenFile) @@ (SubdirPath :> SubdirFile)

StartPaths == {KittenPath, CuddlePath, MissingPath}

\* the input lines of the scene loop, as read_line returns them
LoopLines ==
    {<<"m", "\n">>, <<"c", "\n">>, <<"e", "\n">>, <<"n", "\n">>,
     <<"s", "\n">>, <<"k", "\n">>, <<" ", "o", " ", "\n">>, <<"\n">>}

Prompt == <<">", " ">>

Newline == <<"\n">>

\* the directory that holds the scene files
DirPath == <<"d">>

\* Path::is_dir: some file lies below the path
IsDir(files, path) ==
    \E q \in DOMAIN files :
        Len(q) > Len(path) /\ SubSeq(q, 1, Len(path) + 1) = path \o <<"/">>

DigitChars == <<"0", "1", "2", "3", "4", "5", "6", "7", "8", "9">>

IsDigit(c) == \E d \in 1..10 : DigitChars[d] = c

DigitValue(c) == (CHOOSE d \in 1..10 : DigitChars[d] = c) - 1

RECURSIVE DigitsValue(_)
DigitsValue(s) ==
    IF s = <<>>
    THEN 0
    ELSE 10 * DigitsValue(SubSeq(s, 1, Len(s) - 1)) + DigitValue(s[Len(s)])

\* str::parse::<usize>: an optional `+`, then one or more decimal digits
\* (the lines of the model are too short to overflow a usize)
ParseUsize(s) ==
    LET d == IF s # <<>> /\ Head(s) = "+" THEN Tail(s) ELSE s
    IN  IF d = <<>> \/ \E i \in 1..Len(d) : ~IsDigit(d[i])
        THEN [ok |-> FALSE, val |-> 0]
        ELSE [ok |-> TRUE, val |-> DigitsValue(d)]

\* `{}` of a usize
RECURSIVE FormatUsize(_)
FormatUsize(n) ==
    IF n < 10
    THEN <<DigitChars[n + 1]>>
    ELSE FormatUsize(n \div 10) \o <<DigitChars[(n % 10) + 1]>>

\* line.trim().parse().ok().filter(|i| i > &0 && i <= &adventures.len())
Selection(buf, n) ==
    LET r == ParseUsize(Trim(buf))
    IN  IF r.ok /\ r.val > 0 /\ r.val <= n THEN r.val ELSE 0

NoVersion == [some |-> FALSE, v |-> <<>>]

KittenAdventure ==
    [name |-> <<"k">>, author |-> <<"M">>,
     version |-> [some |-> TRUE, v |-> <<"1">>], start |-> KittenPath]

CuddleAdventure ==
    [name |-> <<"c">>, author |-> <<"M">>, version |-> NoVersion,
     start |-> CuddlePath]

\* an adventure whose start scene does not exist
MissingAdventure ==
    [name |-> <<"n">>, author |-> <<"M">>, version |-> NoVersion,
     start |-> MissingPath]

Adventures == {KittenAdventure, CuddleAdventure, MissingAdventure}

\* what adventure::search may return: read_dir fixes no order
AdventureLists ==
    {l \in SeqsUpTo(Adventures, Cardinality(Adventures)) :
        \A i, j \in 1..Len(l) : l[i] = l[j] => i = j}

\* Display of an Adventure
AdventureDisplay(a) ==
    <<"\"">> \o a.name \o <<"\"", " ", "b", "y", " ">> \o a.author
    \o (IF a.version.some
        THEN <<" ", "(", "v", "e", "r", "s", "i", "o", "n", " ">> \o a.version.v \o <<")">>
        ELSE <<>>)

\* Adventure::start
AdventureStart(files, a) == Load(files, a.start)

\* Vec::swap_remove(i - 1): the last element takes the place of the i-th
SwapRemove(v, i) ==
    LET front == SubSeq(v, 1, Len(v) - 1)
    IN  IF i = Len(v) THEN front ELSE [front EXCEPT ![i] = v[Len(v)]]

StartingMsg == <<"S", "t", "a", "r", "t", "i", "n", "g", " ", "a", "d", "v", "e", "n", "t", "u", "r", "e", ":", " ">>

SelectMsg ==
    <<"P", "l", "e", "a", "s", "e", " ", "s", "e", "l", "e", "c", "t", " ", "a", "n", " ", "a", "d", "v", "e", "n", "t", "u", "r", "e", " ", "b", "y", " ", "n", "u", "m", "b", "e", "r", ":", "\n">>

\* "Please select a valid number (1 to {})!\n"
InvalidMsg(n) ==
    <<"P", "l", "e", "a", "s", "e", " ", "s", "e", "l", "e", "c", "t", " ", "a", " ", "v", "a", "l", "i", "d", " ", "n", "u", "m", "b", "e", "r", " ", "(", "1", " ", "t", "o", " ">>
    \o FormatUsize(n) \o <<")", "!", "\n">>

\* the writes of the menu: the request, then one line for each adventure
Menu(advs) ==
    <<SelectMsg>>
    \o [i \in 1..Len(advs) |->
          FormatUsize(i) \o <<":", " ">> \o AdventureDisplay(advs[i]) \o Newline]

\* the lines a user may enter at the selection prompt
SelectLines ==
    {<<"1", "\n">>, <<"2", "\n">>, <<" ", "3", " ", "\n">>, <<"0", "\n">>,
     <<"4", "\n">>, <<"+", "2", "\n">>, <<"0", "2", "\n">>, <<"m", "\n">>,
     <<"\n">>}

Init ==
    /\ fs = World
    /\ \/ scenepath \in StartPaths /\ adventures = <<>>
       \/ scenepath = DirPath /\ adventures \in AdventureLists
    /\ sel = 0
    /\ eofs = 0
    /\ entry = <<>>
    /\ pc = "start"
    /\ scene = NoScene
    /\ output = <<>>
    /\ line = <<>>
    /\ nread = 0
    /\ res = LoadErr("")
    /\ found = 0
    /\ matched = FALSE
    /\ text = <<>>

\* Scene::load(config.scenepath)? succeeds; the scene is written
StartOk ==
    /\ pc = "start"
    /\ ~IsDir(fs, scenepath)
    /\ \E r \in {Load(fs, scenepath)} :
       /\ r.ok
       /\ res' = r
       /\ scene' = r.scene
       /\ output' = Append(output, Display(r.scene))
    /\ pc' = "loop"
    /\ UNCHANGED <<fs, scenepath, line, nread, text, found, matched, adv>>

\* Scene::load(config.scenepath)? returns the error
StartFail ==
    /\ pc = "start"
    /\ ~IsDir(fs, scenepath)
    /\ \E r \in {Load(fs, scenepath)} :
       /\ ~r.ok
       /\ res' = r
    /\ pc' = "error"
    /\ UNCHANGED <<fs, scenepath, scene, output, line, nread, text, found, matched, adv>>

\* the path is a directory and adventure::search found no adventure
StartNoAdventures ==
    /\ pc = "start"
    /\ IsDir(fs, scenepath)
    /\ Len(adventures) = 0
    /\ res' = LoadErr("no adventures found")
    /\ pc' = "error"
    /\ UNCHANGED <<fs, scenepath, scene, output, line, nread, text, found, matched, adv>>

\* a single adventure was found: it is announced and started
StartSingleOk ==
    /\ pc = "start"
    /\ IsDir(fs, scenepath)
    /\ Len(adventures) = 1
    /\ \E r \in {AdventureStart(fs, adventures[1])} :
           /\ r.ok
           /\ res' = r
           /\ scene' = r.scene
           /\ output' = output \o
                 <<StartingMsg \o AdventureDisplay(adventures[1]) \o <<"\n", "\n">>,
                   Display(r.scene)>>
    /\ adventures' = SwapRemove(adventures, 1)
    /\ pc' = "loop"
    /\ UNCHANGED <<fs, scenepath, line, nread, text, found, matched, sel, eofs, entry>>

\* a single adventure was found and its start scene fails to load
StartSingleFail ==
    /\ pc = "start"
    /\ IsDir(fs, scenepath)
    /\ Len(adventures) = 1
    /\ \E r \in {AdventureStart(fs, adventures[1])} :
           /\ ~r.ok
           /\ res' = r
           /\ output' = Append(output,
                 StartingMsg \o AdventureDisplay(adventures[1]) \o <<"\n", "\n">>)
    /\ adventures' = SwapRemove(adventures, 1)
    /\ pc' = "error"
    /\ UNCHANGED <<fs, scenepath, scene, line, nread, text, found, matched, sel, eofs, entry>>

\* several adventures were found: the menu is written
StartMenu ==
    /\ pc = "start"
    /\ IsDir(fs, scenepath)
    /\ Len(adventures) > 1
    /\ output' = output \o Menu(adventures)
    /\ sel' = 0
    /\ line' = <<>>
    /\ pc' = "select"
    /\ UNCHANGED <<fs, scenepath, scene, nread, text, res, found, matched,
                   adventures, eofs, entry>>

\* an entry is read that selects an adventure whose start scene loads
SelectAcceptOk(l) ==
    /\ pc = "select"
    /\ eofs = 0
    /\ nread < MaxInput
    /\ \E n \in {Selection(line \o l, Len(adventures))} :
       /\ n # 0
       /\ \E r \in {AdventureStart(fs, adventures[n])} :
           /\ r.ok
           /\ sel' = n
           /\ adventures' = SwapRemove(adventures, n)
           /\ res' = r
           /\ scene' = r.scene
           /\ output' = output \o <<Prompt, Display(r.scene)>>
    /\ line' = line \o l
    /\ entry' = l
    /\ nread' = nread + 1
    /\ pc' = "loop"
    /\ UNCHANGED <<fs, scenepath, text, found, matched, eofs>>

\* an entry is read that selects an adventure whose start scene fails to load
SelectAcceptFail(l) ==
    /\ pc = "select"
    /\ eofs = 0
    /\ nread < MaxInput
    /\ \E n \in {Selection(line \o l, Len(adventures))} :
       /\ n # 0
       /\ \E r \in {AdventureStart(fs, adventures[n])} :
           /\ ~r.ok
           /\ sel' = n
           /\ adventures' = SwapRemove(adventures, n)
           /\ res' = r
    /\ output' = Append(output, Prompt)
    /\ line' = line \o l
    /\ entry' = l
    /\ nread' = nread + 1
    /\ pc' = "error"
    /\ UNCHANGED <<fs, scenepath, scene, text, found, matched, eofs>>

\* the same step without line.clear()
SelectRejectKeep(l) ==
    /\ pc = "select"
    /\ eofs = 0
    /\ nread < MaxInput
    /\ Selection(line \o l, Len(adventures)) = 0
    /\ sel' = 0
    /\ line' = line \o l
    /\ entry' = l
    /\ nread' = nread + 1
    /\ output' = output \o <<Prompt, InvalidMsg(Len(adventures))>>
    /\ UNCHANGED <<fs, scenepath, scene, pc, text, res, found, matched,
                   adventures, eofs>>

\* an entry is read that selects nothing: the buffer is cleared and the
\* user is asked again
SelectReject(l) ==
    /\ pc = "select"
    /\ eofs = 0
    /\ nread < MaxInput
    /\ Selection(line \o l, Len(adventures)) = 0
    /\ sel' = 0
    /\ line' = <<>>
    /\ entry' = l
    /\ nread' = nread + 1
    /\ output' = output \o <<Prompt, InvalidMsg(Len(adventures))>>
    /\ UNCHANGED <<fs, scenepath, scene, pc, text, res, found, matched,
                   adventures, eofs>>

\* read_line returns 0 at the selection prompt: nothing is appended, the
\* buffer selects nothing and the user is asked again
SelectEof ==
    /\ pc = "select"
    /\ eofs < MaxEofReads
    /\ Selection(line, Len(adventures)) = 0
    /\ sel' = 0
    /\ line' = <<>>
    /\ entry' = <<>>
    /\ eofs' = eofs + 1
    /\ output' = output \o <<Prompt, InvalidMsg(Len(adventures))>>
    /\ UNCHANGED <<fs, scenepath, scene, pc, nread, text, res, found, matched,
                   adventures>>

\* read_line returns 0 and the loop reads again
ReadEofRetry ==
    /\ pc = "loop"
    /\ eofs < MaxEofReads
    /\ eofs' = eofs + 1
    /\ output' = Append(output, Prompt)
    /\ UNCHANGED <<fs, scenepath, scene, line, pc, nread, text, res, found, matched,
                   adventures, sel, entry>>

\* read_line returns 0: a newline is written and the loop ends
ReadEof ==
    /\ pc = "loop"
    /\ output' = output \o <<Prompt, Newline>>
    /\ eofs' = eofs + 1
    /\ pc' = "done"
    /\ UNCHANGED <<fs, scenepath, scene, line, nread, text, res, found, matched,
                   adventures, sel, entry>>

\* a line is read and get_action returns None
StepNoMatch(l) ==
    /\ pc = "loop"
    /\ nread < MaxInput
    /\ found' = GetAction(scene, Trim(l))
    /\ found' = 0
    /\ line' = l
    /\ nread' = nread + 1
    /\ output' = Append(output, Prompt)
    /\ UNCHANGED <<fs, scenepath, scene, pc, text, res, matched, adv>>

\* the same step with the action found taken out of the scene
StepOutputConsumes(l) ==
    /\ pc = "loop"
    /\ nread < MaxInput
    /\ \E i \in {GetAction(scene, Trim(l))} :
       /\ i # 0
       /\ \E a \in {scene.actions[i]} :
           /\ found' = i
           /\ a.effect.tag = "Output"
           /\ output' = output \o <<Prompt, a.effect.arg \o Newline>>
           /\ scene' = [scene EXCEPT !.actions =
                 SubSeq(scene.actions, 1, i - 1)
                 \o SubSeq(scene.actions, i + 1, Len(scene.actions))]
    /\ line' = l
    /\ nread' = nread + 1
    /\ UNCHANGED <<fs, scenepath, pc, text, res, matched, adv>>

\* a line is read and the action found has an Output effect
StepOutput(l) ==
    /\ pc = "loop"
    /\ nread < MaxInput
    /\ \E i \in {GetAction(scene, Trim(l))} :
       /\ i # 0
       /\ \E a \in {scene.actions[i]} :
           /\ found' = i
           /\ a.effect.tag = "Output"
           /\ output' = output \o <<Prompt, a.effect.arg \o Newline>>
    /\ line' = l
    /\ nread' = nread + 1
    /\ UNCHANGED <<fs, scenepath, scene, pc, text, res, matched, adv>>

\* the same step writing the scene that was current before load_next
StepChangeStaleDisplay(l) ==
    /\ pc = "loop"
    /\ nread < MaxInput
    /\ \E i \in {GetAction(scene, Trim(l))} :
       /\ i # 0
       /\ scene.actions[i].effect.tag = "Change"
       /\ \E r \in {LoadNext(fs, scene, scene.actions[i].effect.arg)} :
           /\ found' = i
           /\ r.ok
           /\ res' = r
           /\ scene' = r.scene
           /\ output' = output \o <<Prompt, Display(scene)>>
    /\ line' = l
    /\ nread' = nread + 1
    /\ UNCHANGED <<fs, scenepath, pc, text, matched, adv>>

\* a line is read, the action found has a Change effect and load_next
\* returns the next scene, which is written
StepChange(l) ==
    /\ pc = "loop"
    /\ nread < MaxInput
    /\ \E i \in {GetAction(scene, Trim(l))} :
       /\ i # 0
       /\ scene.actions[i].effect.tag = "Change"
       /\ \E r \in {LoadNext(fs, scene, scene.actions[i].effect.arg)} :
           /\ found' = i
           /\ r.ok
           /\ res' = r
           /\ scene' = r.scene
           /\ output' = output \o <<Prompt, Display(r.scene)>>
    /\ line' = l
    /\ nread' = nread + 1
    /\ UNCHANGED <<fs, scenepath, pc, text, matched, adv>>

\* the same step with the scene variable cleared before load_next returns
StepChangeFailClobber(l) ==
    /\ pc = "loop"
    /\ nread < MaxInput
    /\ \E i \in {GetAction(scene, Trim(l))} :
       /\ i # 0
       /\ scene.actions[i].effect.tag = "Change"
       /\ \E r \in {LoadNext(fs, scene, scene.actions[i].effect.arg)} :
           /\ found' = i
           /\ ~r.ok
           /\ res' = r
    /\ scene' = NoScene
    /\ line' = l
    /\ nread' = nread + 1
    /\ output' = Append(output, Prompt)
    /\ pc' = "error"
    /\ UNCHANGED <<fs, scenepath, text, matched, adv>>

\* a line is read, the action found has a Change effect and load_next
\* fails: `?` returns the error from run
StepChangeFail(l) ==
    /\ pc = "loop"
    /\ nread < MaxInput
    /\ \E i \in {GetAction(scene, Trim(l))} :
       /\ i # 0
       /\ scene.actions[i].effect.tag = "Change"
       /\ \E r \in {LoadNext(fs, scene, scene.actions[i].effect.arg)} :
           /\ found' = i
           /\ ~r.ok
           /\ res' = r
    /\ line' = l
    /\ nread' = nread + 1
    /\ output' = Append(output, Prompt)
    /\ pc' = "error"
    /\ UNCHANGED <<fs, scenepath, scene, text, matched, adv>>

Next ==
    \/ StartOk
    \/ StartFail
    \/ StartNoAdventures
    \/ StartSingleOk
    \/ StartSingleFail
    \/ StartMenu
    \/ \E l \in SelectLines : SelectAcceptOk(l)
    \/ \E l \in SelectLines : SelectAcceptFail(l)
    \/ \E l \in SelectLines : SelectReject(l)
    \/ SelectEof
    \/ ReadEof
    \/ \E l \in LoopLines : StepNoMatch(l)
    \/ \E l \in LoopLines : StepOutput(l)
    \/ \E l \in LoopLines : StepChange(l)
    \/ \E l \in LoopLines : StepChangeFail(l)

Spec == Init /\ [][Next]_vars

\* run is a sequential program and its input stream is finite: a read that
\* is pending at the end of the input is made
SpecFair == Init /\ [][Next]_vars /\ WF_vars(ReadEof) /\ WF_vars(SelectEof)

(***************************************************************************)
(* Claims about the action parser.                                         *)
(***************************************************************************)
KwKind == <<"k", "w">>

\* whether t occurs in s at index j
OccursAt(s, t, j) == j >= 1 /\ j + Len(t) - 1 <= Len(s) /\ SubSeq(s, j, j + Len(t) - 1) = t

Occurs(s, t) == \E j \in 1..Len(s) : OccursAt(s, t, j)

\* C2: a `kw` action matches a user line exactly when the trimmed line
\* equals the pattern of the action line, whatever the pattern contains.
C2_KeywordExact ==
    (pc = "matched" /\ res.c.kind = KwKind)
        => (matched <=> Trim(line) = res.c.expression)

\* C2 witness: a keyword whose pattern holds a regex metacharacter matched
\* the input equal to it.
C2_Witness ==
    /\ pc = "matched"
    /\ res.c.kind = KwKind
    /\ matched
    /\ \E i \in 1..Len(res.c.expression) : res.c.expression[i] \in MetaChars

ArrowSep == <<" ", "-", ">", " ">>

FirstColon(l) == SetMin({i \in 1..Len(l) : l[i] = ":"})

\* the text after a four-character separator at j is a verb token, one
\* whitespace character and the argument
TailIs(l, j, c) ==
    /\ Len(c.action) >= 1
    /\ \A i \in 1..Len(c.action) : IsWord(c.action[i])
    /\ j + 4 + Len(c.action) <= Len(l)
    /\ IsSpace(l[j + 4 + Len(c.action)])
    /\ Slice(l, j + 4, Len(l))
          = c.action \o <<l[j + 4 + Len(c.action)]>> \o c.argument

\* the separator of the line grammar at j: whitespace, "->", whitespace
ArrowAt(l, j) ==
    /\ j >= 1
    /\ j + 3 <= Len(l)
    /\ IsSpace(l[j]) /\ l[j + 1] = "-" /\ l[j + 2] = ">" /\ IsSpace(l[j + 3])

\* C10 as stated: the pattern of an accepted line ends at the last
\* occurrence of the separator in the line, and verb and argument follow it.
C10_LastOccurrence ==
    (pc = "parsed" /\ res.ok) =>
        LET l == Trim(text)
            J == {j \in 1..Len(l) : ArrowAt(l, j)}
        IN  /\ J # {}
            /\ res.c.expression = Slice(l, FirstColon(l) + 1, SetMax(J) - 1)
            /\ TailIs(l, SetMax(J), res.c)

\* whitespace, "->", whitespace at j, followed by a verb token and whitespace
ParsableSepAt(l, j) ==
    /\ ArrowAt(l, j)
    /\ \E v \in 1..Len(l) :
          /\ j + 4 + v <= Len(l)
          /\ \A i \in (j + 4)..(j + 3 + v) : IsWord(l[i])
          /\ IsSpace(l[j + 4 + v])

\* C10 amended: the pattern of an accepted line ends at the last separator
\* (whitespace, "->", whitespace) that is followed by a verb token and a
\* whitespace character; verb and argument are the text after it.
C10_LastParsableSeparator ==
    (pc = "parsed" /\ res.ok) =>
        LET l == Trim(text)
            J == {j \in (FirstColon(l) + 1)..Len(l) : ParsableSepAt(l, j)}
        IN  /\ J # {}
            /\ res.c.expression = Slice(l, FirstColon(l) + 1, SetMax(J) - 1)
            /\ TailIs(l, SetMax(J), res.c)

\* C10 witness: an accepted line whose argument holds a " -> ".
C10_Witness ==
    /\ pc = "parsed"
    /\ res.ok
    /\ Occurs(res.c.argument, ArrowSep)

(***************************************************************************)
(* Claims about Scene::load and Scene::get_action.                         *)
(***************************************************************************)
\* the lines of a file, each with its terminator
RECURSIVE SplitLines(_)
SplitLines(s) ==
    IF s = <<>> THEN <<>>
    ELSE LET n == IF HasNewline(s)
                  THEN SetMin({i \in 1..Len(s) : s[i] = "\n"})
                  ELSE Len(s)
         IN  <<SubSeq(s, 1, n)>> \o SplitLines(Slice(s, n + 1, Len(s)))

Parses(l) == ActionFrom(Trim(l)).ok

NonBlank(l) == Trim(l) # <<>>

\* the index of the first line that parses as an action, Len(ls) + 1 if none
FirstAction(ls) ==
    IF \E i \in 1..Len(ls) : Parses(ls[i])
    THEN SetMin({i \in 1..Len(ls) : Parses(ls[i])})
    ELSE Len(ls) + 1

LoadDone == pc \in {"loaded", "looked", "failed"}

\* the actions that match the input last looked up
Matching ==
    {i \in 1..Len(scene.actions) :
        IsMatch(scene.actions[i].expression, Trim(line))}

\* C1: get_action returns the matching action of smallest file-order index,
\* and none exactly when no action matches.
C1_FirstMatch ==
    pc = "looked" => found = (IF Matching = {} THEN 0 ELSE SetMin(Matching))

\* C1 witness: two actions with different effects match the input.
C1_Witness ==
    /\ pc = "looked"
    /\ \E i, j \in Matching :
          /\ i < j
          /\ scene.actions[i].effect # scene.actions[j].effect
    /\ found # 0

\* C4: the description is the untrimmed lines before the first line that
\* parses as an action, that line is actions[0], and no line before it
\* makes load fail.
C4_Description ==
    LoadDone =>
        LET ls == SplitLines(fs[scenepath])
            d == FirstAction(ls)
        IN  /\ pc # "failed" =>
                 /\ scene.description = Flatten(Slice(ls, 1, d - 1))
                 /\ d <= Len(ls) =>
                       /\ scene.actions # <<>>
                       /\ scene.actions[1] = ActionFrom(Trim(ls[d])).action
            /\ pc = "failed" =>
                 \E i \in (d + 1)..Len(ls) : NonBlank(ls[i]) /\ ~Parses(ls[i])

\* C4 witness: a loaded scene whose description holds a blank line and a
\* malformed line that starts like an action, followed by an action.
C4_Witness ==
    /\ pc = "loaded"
    /\ scene.actions # <<>>
    /\ scene.description # <<>>
    /\ Head(scene.description) = "\n"
    /\ Occurs(scene.description, <<"\n", "!">>)

\* C5: after the first action line every later line is blank and skipped or
\* an action appended in file order; one later non-blank line that does not
\* parse makes load return an error and no Scene.
C5_ActionBlock ==
    LoadDone =>
        LET ls == SplitLines(fs[scenepath])
            d == FirstAction(ls)
            rest == SelectSeq(Slice(ls, d + 1, Len(ls)), NonBlank)
        IN  d <= Len(ls) =>
              IF \E i \in 1..Len(rest) : ~Parses(rest[i])
              THEN pc = "failed" /\ ~res.ok /\ res.scene = NoScene /\ scene = NoScene
              ELSE /\ pc # "failed"
                   /\ scene.description = Flatten(Slice(ls, 1, d - 1))
                   /\ scene.actions =
                        <<ActionFrom(Trim(ls[d])).action>>
                        \o [i \in 1..Len(rest) |-> ActionFrom(Trim(rest[i])).action]

\* C5 witness: load failed on a line that has a valid action line before it
\* and another after it.
C5_Witness ==
    /\ pc = "failed"
    /\ LET ls == SplitLines(fs[scenepath])
       IN  \E i, j, k \in 1..Len(ls) :
              /\ i < j /\ j < k
              /\ Parses(ls[i]) /\ NonBlank(ls[j]) /\ ~Parses(ls[j]) /\ Parses(ls[k])

\* a line that matches the line grammar with a kind other than kw and a
\* pattern that is no regular expression
BadPattern(l) ==
    LET t == Trim(l) IN
    /\ HeadOk(t)
    /\ SepCandidates(t) # {}
    /\ ActionReCaptures(t).kind # KwKind
    /\ ~Compile(ActionReCaptures(t).expression).ok

\* C6 as stated: a line with an invalid pattern makes load fail, whichever
\* line of the file it is.
C6_BadPatternAlwaysFatal ==
    LoadDone =>
        LET ls == SplitLines(fs[scenepath])
        IN  (\E i \in 1..Len(ls) : BadPattern(ls[i])) => pc = "failed"

\* C6 amended: a line with an invalid pattern raises InvalidPattern in the
\* parser; load fails when the line comes after the first line that parses
\* as an action (with that error when no earlier line fails), and takes the
\* line as description text when it comes before.
C6_BadPatternFatalInActionBlock ==
    LoadDone =>
        LET ls == SplitLines(fs[scenepath])
            d == FirstAction(ls)
        IN  \A i \in 1..Len(ls) :
              BadPattern(ls[i]) =>
                /\ ActionFrom(Trim(ls[i])).err = "regex"
                /\ i > d => pc = "failed"
                /\ (/\ i > d
                    /\ \A j \in (d + 1)..(i - 1) : ~NonBlank(ls[j]) \/ Parses(ls[j]))
                      => res.err = "regex"
                /\ (i < d /\ pc # "failed") =>
                      SubSeq(scene.description, 1, Len(Flatten(Slice(ls, 1, i))))
                        = Flatten(Slice(ls, 1, i))

\* C6 witness: load failed with the regex error of a line in the action block.
C6_Witness ==
    /\ pc = "failed"
    /\ res.err = "regex"
    /\ \E i \in 1..Len(SplitLines(fs[scenepath])) :
          BadPattern(SplitLines(fs[scenepath])[i])

\* C9: a file in which no line parses as an action loads; the Scene has no
\* actions, the whole file as description, and get_action returns none.
C9_NoActions ==
    LoadDone =>
        LET ls == SplitLines(fs[scenepath])
        IN  (\A i \in 1..Len(ls) : ~Parses(ls[i])) =>
              /\ pc # "failed"
              /\ res.ok
              /\ scene.actions = <<>>
              /\ scene.description = fs[scenepath]
              /\ pc = "looked" => found = 0

\* C9 witness: get_action was called on a scene loaded from a file that is
\* not empty and holds no action.
C9_Witness ==
    /\ pc = "looked"
    /\ scene.actions = <<>>
    /\ fs[scenepath] # <<>>
    /\ found = 0

(***************************************************************************)
(* Claims about the scene loop.                                            *)
(***************************************************************************)
\* a step of the loop that read an input line
LineStep == pc = "loop" /\ nread' = nread + 1

\* the actions of the current scene that match the line read by the step
MatchingNext ==
    {i \in 1..Len(scene.actions) :
        IsMatch(scene.actions[i].expression, Trim(line'))}

\* C3: the scene changes only on an input whose first matching action is a
\* ChangeScene, and then becomes the scene load_next returns; on an Output
\* the scene stays and the text is written; on no match the scene stays and
\* only the prompt is written.
C3_Transitions ==
    [][/\ LineStep =>
            IF MatchingNext = {}
            THEN /\ scene' = scene
                 /\ output' = Append(output, Prompt)
                 /\ pc' = "loop"
            ELSE LET e == scene.actions[SetMin(MatchingNext)].effect IN
                 IF e.tag = "Output"
                 THEN /\ scene' = scene
                      /\ output' = output \o <<Prompt, e.arg \o Newline>>
                      /\ pc' = "loop"
                 ELSE IF LoadNext(fs, scene, e.arg).ok
                      THEN /\ scene' = LoadNext(fs, scene, e.arg).scene
                           /\ pc' = "loop"
                      ELSE scene' = scene /\ pc' = "error"
       /\ (pc = "loop" /\ ~LineStep) => scene' = scene
      ]_vars

\* C3 witness: from kitten, an Output, an input without match and a
\* ChangeScene were processed, and cuddle_cat is the current scene.
C3_Witness ==
    /\ pc = "loop"
    /\ scenepath = KittenPath
    /\ scene.path = CuddlePath
    /\ nread = 3
    /\ line = <<"c", "\n">>
    /\ Len(output) = 6
    /\ output[3] = <<"w", "\n">>
    /\ output[6] = scene.description

\* C7: a transition whose load fails leaves the scene as it was, a scene
\* equal to what its file loads to, and writes nothing but the prompt.
C7_FailedLoadKeepsScene ==
    [][(pc = "loop" /\ pc' = "error") =>
          /\ scene' = scene
          /\ scene' = Load(fs, scene.path).scene
          /\ output' = Append(output, Prompt)
      ]_vars

\* C7 witness: after two transitions a third one failed to load, and
\* kitten is still the scene.
C7_Witness ==
    /\ pc = "error"
    /\ nread = 3
    /\ ~res.ok
    /\ scenepath = CuddlePath
    /\ scene.path = KittenPath
    /\ scene.actions # <<>>

\* C8: after a transition the scene's file is in the directory of the
\* starting scene, its file name is the ChangeScene argument followed by
\* ".scene", and the scene equals a fresh load of that file.
C8_SiblingFile ==
    [][(/\ LineStep
        /\ scenepath \in StartPaths
        /\ pc' = "loop"
        /\ found' # 0
        /\ scene.actions[found'].effect.tag = "Change") =>
          /\ Parent(scene'.path) = Parent(scenepath)
          /\ FileName(scene'.path) = scene.actions[found'].effect.arg \o SceneExt
          /\ scene' = Load(fs, scene'.path).scene
      ]_vars

(***************************************************************************)
(* Claims about the effect and the matcher of a parsed action.             *)
(***************************************************************************)
SceneVerb == <<"s", "c", "e", "n", "e">>

\* the verb token that follows the separator at j: the word characters up to
\* the next character that is none
VerbAfter(l, j) ==
    LET n == SetMin({i \in (j + 4)..(Len(l) + 1) : i > Len(l) \/ ~IsWord(l[i])})
    IN  Slice(l, j + 4, n - 1)

\* C11: the effect of an accepted line is ChangeScene(argument) exactly when
\* the verb token is `scene` and Output(argument) for any other verb; the
\* argument is the text after the verb and one whitespace, unchanged.
C11_EffectByVerb ==
    (pc = "parsed" /\ res.ok) =>
        LET l == Trim(text)
            j == SetMax({i \in (FirstColon(l) + 1)..Len(l) : ParsableSepAt(l, i)})
            verb == VerbAfter(l, j)
            arg == Slice(l, j + 5 + Len(verb), Len(l))
        IN  /\ res.action.effect.tag = "Change" <=> verb = SceneVerb
            /\ res.action.effect.tag = "Output" <=> verb # SceneVerb
            /\ res.action.effect.arg = arg

\* C11 witness: an accepted line with the verb `scene`, parsed to a
\* ChangeScene of its argument.
C11_Witness ==
    /\ pc = "parsed"
    /\ res.ok
    /\ res.c.action = SceneVerb
    /\ res.action.effect = Change(res.c.argument)
    /\ res.c.argument # <<>>

IsLiteral(p) == \A i \in 1..Len(p) : p[i] \notin MetaChars

StartsWith(s, t) == Len(t) <= Len(s) /\ Slice(s, 1, Len(t)) = t

EndsWith(s, t) == Len(t) <= Len(s) /\ Slice(s, Len(s) - Len(t) + 1, Len(s)) = t

Contains(s, t) == t = <<>> \/ Occurs(s, t)

\* the substrings of s, the empty one included
Substrings(s) ==
    {<<>>} \cup {SubSeq(s, a, b) : a \in 1..Len(s), b \in 1..Len(s)}

\* C12: an action of a kind other than kw matches with its pattern as
\* written, unanchored: a literal pattern matches every trimmed input that
\* contains it, a leading `^` or trailing `$` ties it to the start or end of
\* the input, and only both tie it to the whole input; a pattern without
\* anchors matches an input exactly when it matches one of its substrings.
C12_PatternUnanchored ==
    (pc = "matched" /\ res.c.kind # KwKind) =>
        LET p == res.c.expression
            inp == Trim(line)
            hat == p # <<>> /\ Head(p) = "^"
            rest == IF hat THEN Tail(p) ELSE p
            dollar == rest # <<>> /\ rest[Len(rest)] = "$"
            body == IF dollar THEN SubSeq(rest, 1, Len(rest) - 1) ELSE rest
        IN  /\ IsLiteral(body) =>
                 (matched <=>
                    CASE hat /\ dollar -> inp = body
                      [] hat /\ ~dollar -> StartsWith(inp, body)
                      [] ~hat /\ dollar -> EndsWith(inp, body)
                      [] OTHER -> Contains(inp, body))
            /\ (\A i \in 1..Len(p) : p[i] \notin {"^", "$"}) =>
                 (matched <=>
                    \E sub \in Substrings(inp) :
                       IsMatch(<<"^">> \o p \o <<"$">>, sub))

\* C12 witness: a literal pattern without anchors matched an input that
\* holds it after other text.
C12_Witness ==
    /\ pc = "matched"
    /\ res.c.kind # KwKind
    /\ matched
    /\ res.c.expression # <<>>
    /\ IsLiteral(res.c.expression)
    /\ ~StartsWith(Trim(line), res.c.expression)

(***************************************************************************)
(* Claims about the end of the input, the order of the output and the      *)
(* lifetime of a scene.                                                    *)
(***************************************************************************)
\* a step of the scene loop in which read_line returned 0
EofStep == pc = "loop" /\ eofs' = eofs + 1

\* the first action of the current scene that matches the line read by the
\* step, 0 for none
FirstMatchNext == IF MatchingNext = {} THEN 0 ELSE SetMin(MatchingNext)

\* C13: once a scene is displayed the loop ends: at the end of the input
\* the prompt and a final newline are written and run returns, the loop is
\* left otherwise only by a transition whose load failed, and the loop is
\* always left in the end.
C13_LoopTerminates ==
    /\ [][EofStep =>
            /\ pc' = "done"
            /\ output' = output \o <<Prompt, Newline>>]_vars
    /\ [][(pc = "loop" /\ pc' # "loop" /\ ~EofStep) =>
            /\ LineStep
            /\ pc' = "error"
            /\ FirstMatchNext # 0
            /\ scene.actions[FirstMatchNext].effect.tag = "Change"
            /\ ~LoadNext(fs, scene, scene.actions[FirstMatchNext].effect.arg).ok
         ]_vars
    /\ (pc = "loop") ~> (pc \in {"done", "error"})

\* C13 witness: run returned at the end of the input after a transition
\* and a further line.
C13_Witness ==
    /\ pc = "done"
    /\ eofs = 1
    /\ nread >= 2
    /\ scenepath = KittenPath
    /\ scene.path = CuddlePath
    /\ output[Len(output)] = Newline
    /\ output[Len(output) - 1] = Prompt

\* C15: the start writes the starting scene's description last and before
\* any prompt of the scene loop; each read is preceded by one prompt; after
\* the prompt an Output writes its text and a newline, a ChangeScene writes
\* the new scene's description once and nothing else, no match writes
\* nothing; the end of the input writes the prompt and a newline; nothing
\* is written after run has returned.
C15_OutputOrder ==
    [][/\ (pc = "start" /\ pc' = "loop" /\ scenepath \in StartPaths) =>
             output' = <<Load(fs, scenepath).scene.description>>
       /\ (pc \in {"start", "select"} /\ pc' = "loop") =>
             /\ Len(output') > Len(output)
             /\ output'[Len(output')] = scene'.description
             /\ SubSeq(output', 1, Len(output)) = output
       /\ LineStep =>
             output' = output \o <<Prompt>> \o
                (IF FirstMatchNext = 0
                 THEN <<>>
                 ELSE LET e == scene.actions[FirstMatchNext].effect IN
                      IF e.tag = "Output"
                      THEN <<e.arg \o Newline>>
                      ELSE IF pc' = "loop"
                           THEN <<LoadNext(fs, scene, e.arg).scene.description>>
                           ELSE <<>>)
       /\ EofStep => output' = output \o <<Prompt, Newline>>
       /\ pc \in {"done", "error"} => output' = output
      ]_vars

\* C15 witness: the run of the kitten test: an Output, a transition to
\* cuddle_cat, an Output there, and the end of the input.
C15_Witness ==
    /\ pc = "done"
    /\ scenepath = KittenPath
    /\ output = <<Load(World, KittenPath).scene.description,
                  Prompt, <<"w", "\n">>,
                  Prompt, Load(World, CuddlePath).scene.description,
                  Prompt, <<"m", "\n">>,
                  Prompt, Newline>>

\* C16: a scene stays as its file loaded it: the current scene is replaced
\* only by a transition that loaded its successor (or by the start), it
\* always equals a fresh load of its file, and get_action returns the first
\* matching action of that scene for every line, whatever was read before.
C16_SceneImmutable ==
    /\ [][(pc = "loop" /\ scene' # scene) =>
            /\ LineStep
            /\ FirstMatchNext # 0
            /\ scene.actions[FirstMatchNext].effect.tag = "Change"
            /\ scene' = LoadNext(fs, scene, scene.actions[FirstMatchNext].effect.arg).scene
         ]_vars
    /\ [][LineStep => found' = FirstMatchNext]_vars
    /\ [](pc \in {"loop", "done"} => scene = Load(fs, scene.path).scene)

\* C16 witness: in kitten the same line was read twice with a line without
\* a match in between, and gave the same action and output both times.
C16_Witness ==
    /\ pc = "loop"
    /\ scenepath = KittenPath
    /\ scene = Load(World, KittenPath).scene
    /\ nread = 3
    /\ line = <<"m", "\n">>
    /\ found = 1
    /\ output = <<scene.description, Prompt, <<"w", "\n">>, Prompt,
                  Prompt, <<"w", "\n">>>>

(***************************************************************************)
(* Claims about the selection of an adventure.                             *)
(***************************************************************************)
\* a step of the selection loop that read an entry
SelectStep == pc = "select" /\ nread' = nread + 1

\* C17: when the input ends at the selection prompt, the selection loop
\* stops.
C17_SelectionEndsAtEof ==
    [][(pc = "select" /\ eofs' = eofs + 1) => pc' # "select"]_vars

\* t is a decimal numeral of n: an optional `+`, zeros, the digits of n
Denotes(t, n) ==
    LET d == IF t # <<>> /\ Head(t) = "+" THEN Tail(t) ELSE t
    IN  \E k \in 0..Len(d) :
           /\ \A i \in 1..k : d[i] = "0"
           /\ SubSeq(d, k + 1, Len(d)) = FormatUsize(n)

\* the numbers of the menu that the entry read by the step denotes
EntryNumbers == {n \in 1..Len(adventures) : Denotes(Trim(entry'), n)}

\* C18: an entry that, trimmed, is a number n of the menu starts the
\* adventure listed under n; every other entry leaves the selection unset,
\* writes the prompt and the 'valid number' message and leaves the buffer
\* empty for the next entry; what was entered before plays no part.
C18_SelectionByNumber ==
    [][SelectStep =>
          IF EntryNumbers # {}
          THEN LET n == CHOOSE m \in EntryNumbers : TRUE IN
               /\ sel' = n
               /\ pc' # "select"
               /\ \E a \in Adventures :
                     /\ output[n + 1] =
                           FormatUsize(n) \o <<":", " ">>
                           \o AdventureDisplay(a) \o Newline
                     /\ res' = Load(fs, a.start)
               /\ IF res'.ok
                  THEN /\ pc' = "loop"
                       /\ scene' = res'.scene
                       /\ output' = output \o <<Prompt, scene'.description>>
                  ELSE /\ pc' = "error"
                       /\ output' = Append(output, Prompt)
          ELSE /\ sel' = 0
               /\ pc' = "select"
               /\ line' = <<>>
               /\ adventures' = adventures
               /\ scene' = scene
               /\ output' = output \o <<Prompt, InvalidMsg(Len(adventures))>>
      ]_vars

\* C18 witness: of three adventures the second was started by the entry
\* `+2` after an entry was rejected.
C18_Witness ==
    /\ pc = "loop"
    /\ sel = 2
    /\ nread = 2
    /\ entry = <<"+", "2", "\n">>
    /\ Len(adventures) = 2
    /\ output[3] = <<"2", ":", " ">> \o AdventureDisplay(CuddleAdventure) \o Newline
    /\ output[6] = InvalidMsg(3)
    /\ scene.path = CuddlePath

====
